---- MODULE Spec2Model ----
(***************************************************************************)
(* Criador Mental: the editor state machine of the three variants of the   *)
(* application kept in the repository.                                     *)
(*   "single"   - the single-document component (useState, no history),    *)
(*                src/unnamed/part_000 lines 1-1199                        *)
(*   "local"    - the reducer variant persisted in localStorage,           *)
(*                src/unnamed/part_000 lines 1200-2626                     *)
(*   "supabase" - the reducer variant persisted in Supabase,               *)
(*                src/Criador-Mental/README.md                             *)
(* Array indices are 0-based as in the source; a sequence s is read at     *)
(* s[i + 1].  An absent key of a Partial<> payload is an absent field of   *)
(* the record that models the payload.                                     *)
(***************************************************************************)
EXTENDS Integers, Sequences, FiniteSets, TLC

VARIABLES
    variant,        \* which of the three variants runs
    state,          \* AppState (reducer variants) / the component state (single)
    localStorage,   \* "local": the browser store read and written by the reducer
    database,       \* "supabase": the rows of the projects table
    focusedItems,   \* EditorScreen / Home local state
    isChatLoading,  \* ChatPanel local state
    isProcessingImage, \* Home local state (image keyword extraction running)
    requests,       \* asynchronous handlers suspended at their await
    aiCalls,        \* number of calls made to the AI backend
    blobWrites,     \* number of uploads made to blob storage
    clock,          \* Date.now(): number of identifiers handed out
    timers,         \* App: autosave timers set and neither fired nor cleared
    saves,          \* "supabase": autosave updates awaiting their reply
    committedSinceOpen  \* history: a Commit was made since the project was opened

vars == <<variant, state, localStorage, database, focusedItems, isChatLoading,
          isProcessingImage, requests, aiCalls, blobWrites, clock, timers,
          saves, committedSinceOpen>>

uiVars == <<focusedItems, isChatLoading, isProcessingImage, requests, aiCalls,
            blobWrites>>

----------------------------------------------------------------------------
(* Bounds of the model *)

MaxPast == 2            \* history entries kept (past + future)
MaxIds == 2             \* identifiers (projects, pages) created in a run
MaxRequests == 2        \* asynchronous requests in flight
MaxCalls == 2           \* AI backend calls made in a run
MaxKeywords == 2        \* keywords typed into a page
MaxPages == 2           \* pages of a document
MaxFocus == 1           \* items focused at a time
MaxSaves == 2           \* autosave updates awaiting their reply
MaxDocPages == 3        \* pages of a document whose pages refer to each other

----------------------------------------------------------------------------
(* Values *)

Null == "null"
NullIndex == -1                      \* activeProjectIndex: null
NullProject == [id |-> Null]         \* activeProject: null
User == "u1"
MasterId == "master"

ValidationMessage == "Por favor, adicione pelo menos uma palavra-chave"
NoImageMessage == "A IA nao retornou uma imagem"
BackendErrorMessage == "backend error"
ImportErrorMessage == "Nao foi possivel ler ou analisar o arquivo JSON"

createNewPage(id, name) ==
    [id |-> id, name |-> name, keywords |-> <<>>, instructions |-> <<>>,
     generatedImage |-> Null, versions |-> <<>>, contextPageIds |-> <<>>]

MasterPage == createNewPage(MasterId, "Master")
IdeasPage == createNewPage("page-1", "Ideas")

Words == {"Brain", "Light"}
Images == {"img-1", "img-2"}
noFocus == [keywords |-> <<>>, instructions |-> <<>>]

(* The documents the editor actions are exercised with. *)
PagesMaster == <<MasterPage>>
PagesIdeas == <<MasterPage, IdeasPage>>
PagesBrain == <<MasterPage, [IdeasPage EXCEPT !.keywords = <<"Brain", "Light">>]>>

EditorPages == {PagesMaster, PagesIdeas, PagesBrain}
PageIndexes == {0, 1}

EditorStates == [pages : EditorPages, activePageIndex : PageIndexes]

(* Partial<EditorState>: any subset of the two keys. *)
PartialEditorStates ==
    EditorStates
    \cup [pages : EditorPages]
    \cup [activePageIndex : PageIndexes]

newProject(id, name) ==
    [id |-> id, name |-> name, pages |-> <<MasterPage>>, activePageIndex |-> 0]

(* A project saved in an earlier session. *)
SeedProject ==
    [id |-> "project-0", name |-> "Seed", pages |-> PagesBrain,
     activePageIndex |-> 1]

emptyEditor ==
    [past |-> <<>>, present |-> [pages |-> <<>>, activePageIndex |-> 0],
     future |-> <<>>]

initialStateLocal ==
    [appStatus |-> "loading", currentUser |-> Null, projects |-> <<>>,
     activeProjectIndex |-> NullIndex, editor |-> emptyEditor,
     isLoading |-> FALSE, errorMessage |-> Null]

\* the useState initial values of the single-document component
initialStateSingle ==
    [pages |-> <<MasterPage>>, activePageIndex |-> 0, isLoading |-> FALSE,
     errorMessage |-> Null, showErrorModal |-> FALSE]

initialStateSupabase ==
    [appStatus |-> "loading", session |-> Null, projects |-> <<>>,
     activeProject |-> NullProject, editor |-> emptyEditor,
     isLoading |-> FALSE, errorMessage |-> Null]

----------------------------------------------------------------------------
(* Helpers for JavaScript array and object operations *)

\* array.filter((_, i) => i !== index), index 0-based
RemoveAt(s, index) ==
    [k \in 1..(Len(s) - (IF index + 1 \in 1..Len(s) THEN 1 ELSE 0)) |->
        IF k < index + 1 THEN s[k] ELSE s[k + 1]]

\* {...present, ...payload}
Spread(present, payload) ==
    [k \in DOMAIN present |->
        IF k \in DOMAIN payload THEN payload[k] ELSE present[k]]

\* JSON.stringify(a) === JSON.stringify(payload[key]): JSON.stringify of an
\* absent key is undefined, which equals no string; on the plain data of the
\* model two texts are equal exactly when the values are.
SameJson(a, payload, key) ==
    /\ key \in DOMAIN payload
    /\ payload[key] = a

\* a === payload[key] for a number a: false when the key is absent
StrictEqual(a, payload, key) ==
    /\ key \in DOMAIN payload
    /\ payload[key] = a

----------------------------------------------------------------------------
(* The history cases shared by the two reducers (the code is the same text) *)

\* UNDO that files the undone present at the far end of future
UNDO_FutureAtEnd(s) ==
    LET past == s.editor.past
        present == s.editor.present
        future == s.editor.future
    IN  IF Len(past) = 0 THEN s
        ELSE [s EXCEPT !.editor =
                [past |-> SubSeq(past, 1, Len(past) - 1),
                 present |-> past[Len(past)],
                 future |-> Append(future, present)]]

\* UNDO that restores the oldest entry of past instead of the newest
UNDO_Oldest(s) ==
    LET past == s.editor.past
        present == s.editor.present
        future == s.editor.future
    IN  IF Len(past) = 0 THEN s
        ELSE [s EXCEPT !.editor =
                [past |-> Tail(past),
                 present |-> past[1],
                 future |-> <<present>> \o future]]

UNDO(s) ==
    LET past == s.editor.past
        present == s.editor.present
        future == s.editor.future
    IN  IF Len(past) = 0 THEN s
        ELSE [s EXCEPT !.editor =
                [past |-> SubSeq(past, 1, Len(past) - 1),
                 present |-> past[Len(past)],
                 future |-> <<present>> \o future]]

\* REDO without the early return: pushes present even when future is empty
REDO_NoGuard(s) ==
    LET past == s.editor.past
        present == s.editor.present
        future == s.editor.future
    IN  IF Len(future) = 0
        THEN [s EXCEPT !.editor.past = Append(past, present)]
        ELSE [s EXCEPT !.editor =
                [past |-> Append(past, present),
                 present |-> future[1],
                 future |-> Tail(future)]]

REDO(s) ==
    LET past == s.editor.past
        present == s.editor.present
        future == s.editor.future
    IN  IF Len(future) = 0 THEN s
        ELSE [s EXCEPT !.editor =
                [past |-> Append(past, present),
                 present |-> future[1],
                 future |-> Tail(future)]]

SET_EDITOR_STATE(s, payload) ==
    [s EXCEPT !.editor = [past |-> <<>>, present |-> payload, future |-> <<>>]]

\* a commit that forgets to clear future
PushPresent_KeepFuture(s, payload) ==
    [s EXCEPT !.editor =
        [past |-> Append(s.editor.past, s.editor.present),
         present |-> Spread(s.editor.present, payload),
         future |-> s.editor.future]]

PushPresent(s, payload) ==
    [s EXCEPT !.editor =
        [past |-> Append(s.editor.past, s.editor.present),
         present |-> Spread(s.editor.present, payload),
         future |-> <<>>]]

\* localStorage variant: JSON.stringify(present) === JSON.stringify({...present, ...payload})
UPDATE_EDITOR_STATE_Local(s, payload) ==
    IF s.editor.present = Spread(s.editor.present, payload)
    THEN s
    ELSE PushPresent(s, payload)

\* Supabase variant: compares present with the payload's own two fields
UPDATE_EDITOR_STATE_Supabase(s, payload) ==
    IF /\ SameJson(s.editor.present.pages, payload, "pages")
       /\ StrictEqual(s.editor.present.activePageIndex, payload, "activePageIndex")
    THEN s
    ELSE PushPresent(s, payload)

----------------------------------------------------------------------------
(* appReducer, localStorage variant *)

appReducerLocal(s, action, ls) ==
    CASE action.type = "INITIALIZE_SESSION" ->
            IF ls.session # Null
            THEN [s EXCEPT !.appStatus = "dashboard",
                           !.currentUser = ls.session,
                           !.projects = ls.projects]
            ELSE [s EXCEPT !.appStatus = "auth"]
      [] action.type = "LOGIN" ->
            [s EXCEPT !.appStatus = "dashboard", !.currentUser = action.payload]
      [] action.type = "LOGOUT" ->
            [initialStateLocal EXCEPT !.appStatus = "auth"]
      [] action.type = "LOAD_PROJECTS" ->
            [s EXCEPT !.projects = action.payload]
      [] action.type = "CREATE_PROJECT" ->
            [s EXCEPT !.projects = Append(s.projects, action.payload),
                      !.activeProjectIndex = Len(s.projects),
                      !.appStatus = "editor"]
      [] action.type = "DELETE_PROJECT" ->
            [s EXCEPT !.projects = RemoveAt(s.projects, action.payload)]
      [] action.type = "SELECT_PROJECT" ->
            IF action.payload + 1 \notin 1..Len(s.projects) THEN s
            ELSE LET project == s.projects[action.payload + 1]
                 IN  [s EXCEPT !.appStatus = "editor",
                               !.activeProjectIndex = action.payload,
                               !.editor =
                                  [past |-> <<>>,
                                   present |->
                                      [pages |-> project.pages,
                                       activePageIndex |-> project.activePageIndex],
                                   future |-> <<>>]]
      [] action.type = "EXIT_EDITOR" ->
            [s EXCEPT !.appStatus = "dashboard", !.activeProjectIndex = NullIndex]
      [] action.type = "SAVE_PROJECT_TO_STORE" ->
            IF \/ s.activeProjectIndex = NullIndex
               \/ s.currentUser = Null
               \/ Len(s.editor.present.pages) = 0
            THEN s
            ELSE [s EXCEPT !.projects[s.activeProjectIndex + 1] =
                    [@ EXCEPT !.pages = s.editor.present.pages,
                              !.activePageIndex = s.editor.present.activePageIndex]]
      [] action.type = "SET_EDITOR_STATE" -> SET_EDITOR_STATE(s, action.payload)
      [] action.type = "UPDATE_EDITOR_STATE" ->
            UPDATE_EDITOR_STATE_Local(s, action.payload)
      [] action.type = "UNDO" -> UNDO(s)
      [] action.type = "REDO" -> REDO(s)
      [] action.type = "SET_LOADING" -> [s EXCEPT !.isLoading = action.payload]
      [] action.type = "SET_ERROR" -> [s EXCEPT !.errorMessage = action.payload]
      [] OTHER -> s

\* the writes the reducer makes to localStorage while handling the action
localStorageAfter(s, action, ls) ==
    CASE action.type = "LOGOUT" -> [ls EXCEPT !.session = Null]
      [] action.type \in {"CREATE_PROJECT", "DELETE_PROJECT"} ->
            IF s.currentUser # Null
            THEN [ls EXCEPT !.projects = appReducerLocal(s, action, ls).projects]
            ELSE ls
      [] action.type = "SAVE_PROJECT_TO_STORE" ->
            IF appReducerLocal(s, action, ls) = s THEN ls
            ELSE [ls EXCEPT !.projects = appReducerLocal(s, action, ls).projects]
      [] OTHER -> ls

----------------------------------------------------------------------------
(* appReducer, Supabase variant *)

appReducerSupabase(s, action) ==
    CASE action.type = "SET_SESSION" ->
            [s EXCEPT !.session = action.payload,
                      !.appStatus = IF action.payload # Null THEN "dashboard"
                                    ELSE "auth"]
      [] action.type = "LOGOUT" ->
            [initialStateSupabase EXCEPT !.appStatus = "auth"]
      [] action.type = "SET_PROJECTS" ->
            [s EXCEPT !.projects = action.payload]
      [] action.type = "SET_ACTIVE_PROJECT" ->
            IF action.payload = NullProject
            THEN [s EXCEPT !.activeProject = NullProject, !.appStatus = "dashboard"]
            ELSE [s EXCEPT !.appStatus = "editor",
                           !.activeProject = action.payload,
                           !.editor =
                              [past |-> <<>>,
                               present |->
                                  [pages |-> action.payload.pages,
                                   activePageIndex |-> action.payload.activePageIndex],
                               future |-> <<>>]]
      [] action.type = "UPDATE_ACTIVE_PROJECT_IN_LIST" ->
            [s EXCEPT !.projects =
                [k \in 1..Len(s.projects) |->
                    IF s.projects[k].id = action.payload.id THEN action.payload
                    ELSE s.projects[k]]]
      [] action.type = "DELETE_PROJECT_FROM_LIST" ->
            [s EXCEPT !.projects =
                SelectSeq(s.projects, LAMBDA p : p.id # action.payload)]
      [] action.type = "GO_TO_DASHBOARD" ->
            [s EXCEPT !.appStatus = "dashboard", !.activeProject = NullProject]
      [] action.type = "SET_EDITOR_STATE" -> SET_EDITOR_STATE(s, action.payload)
      [] action.type = "UPDATE_EDITOR_STATE" ->
            UPDATE_EDITOR_STATE_Supabase(s, action.payload)
      [] action.type = "UNDO" -> UNDO(s)
      [] action.type = "REDO" -> REDO(s)
      [] action.type = "SET_LOADING" -> [s EXCEPT !.isLoading = action.payload]
      [] action.type = "SET_ERROR" -> [s EXCEPT !.errorMessage = action.payload]
      [] OTHER -> s

\* the reducer of the running variant
appReducer(s, action) ==
    IF variant = "local" THEN appReducerLocal(s, action, localStorage)
    ELSE appReducerSupabase(s, action)

----------------------------------------------------------------------------
(* Dispatch and the screens *)

\* the condition of the autosave effect
AutosaveCondition(s) ==
    /\ s.appStatus = "editor"
    /\ Len(s.editor.past) > 0
    /\ variant = "supabase" => s.activeProject # NullProject

\* the actions whose reducer case puts a new object in editor.present even
\* when its value is the old one
Replacing == {"SET_EDITOR_STATE", "SELECT_PROJECT", "SET_ACTIVE_PROJECT"}

\* a dependency of the autosave effect (state.editor.present, state.appStatus
\* and, Supabase, state.activeProject, compared by identity) differs between
\* the renders of s and t; every reducer case that changes editor makes a new
\* present
DepsChanged(s, t, types) ==
    \/ types \cap Replacing # {}
    \/ t.editor # s.editor
    \/ t.appStatus # s.appStatus
    \/ variant = "supabase" /\ t.activeProject # s.activeProject

\* the callback given to setTimeout: the localStorage variant dispatches
\* SAVE_PROJECT_TO_STORE, the Supabase variant closes over the rendered state
NewTimer(t) ==
    IF variant = "local" THEN [dispatch |-> "SAVE_PROJECT_TO_STORE"]
    ELSE [id |-> t.activeProject.id, pages |-> t.editor.present.pages,
          activePageIndex |-> t.editor.present.activePageIndex]

\* clearTimeout(timer) in the cleanup of the effect: the timer the effect set
\* last, if it has not fired
clearTimeout(ts) == IF ts = <<>> THEN ts ELSE SubSeq(ts, 1, Len(ts) - 1)

\* the autosave effect of App after the render of t that follows the render of
\* s: the cleanup of the previous run, then a new timer if the condition holds
autosaveEffect(s, t, types, ts) ==
    IF variant = "single" \/ ~DepsChanged(s, t, types) THEN ts
    ELSE LET cleared == IF AutosaveCondition(s) THEN clearTimeout(ts) ELSE ts
         IN  IF AutosaveCondition(t) THEN Append(cleared, NewTimer(t))
             ELSE cleared

\* the render after a handler that dispatched actions of these types: the
\* effects run, and a Commit or the opening of a project is recorded
AfterRender(types) ==
    /\ timers' = autosaveEffect(state, state', types, timers)
    /\ committedSinceOpen' =
          IF variant = "single" THEN committedSinceOpen
          ELSE IF \/ state.appStatus # "editor" /\ state'.appStatus = "editor"
                  \/ types \cap {"SELECT_PROJECT", "SET_ACTIVE_PROJECT"} # {}
               THEN FALSE
               ELSE IF "UPDATE_EDITOR_STATE" \in types
                       /\ state'.editor # state.editor
                    THEN TRUE
                    ELSE committedSinceOpen
    /\ saves' = saves

\* dispatch(action): the reducer runs, with its localStorage writes
Dispatch(action) ==
    /\ state' = appReducer(state, action)
    /\ localStorage' = IF variant = "local"
                       THEN localStorageAfter(state, action, localStorage)
                       ELSE localStorage
    /\ AfterRender({action.type})

\* two dispatches made by one handler, in order
Dispatch2(a1, a2) ==
    /\ state' = appReducer(appReducer(state, a1), a2)
    /\ localStorage' =
          IF variant = "local"
          THEN localStorageAfter(appReducer(state, a1), a2,
                                 localStorageAfter(state, a1, localStorage))
          ELSE localStorage
    /\ AfterRender({a1.type, a2.type})

Act(type) == [type |-> type]
ActP(type, payload) == [type |-> type, payload |-> payload]

present ==
    IF variant = "single"
    THEN [pages |-> state.pages, activePageIndex |-> state.activePageIndex]
    ELSE state.editor.present
pages == present.pages
activePageIndex == present.activePageIndex

\* const activePage = pages[activePageIndex] is not undefined; a present
\* whose pages are undefined is a record without the field
HasActivePage ==
    /\ "pages" \in DOMAIN present
    /\ activePageIndex + 1 \in 1..Len(pages)
activePage == pages[activePageIndex + 1]

HasActiveProject ==
    IF variant = "local" THEN state.activeProjectIndex # NullIndex
    ELSE state.activeProject # NullProject

\* EditorScreen renders its controls (and not the "Carregando projeto" spinner)
EditorRendered ==
    /\ variant \in {"local", "supabase"}
    /\ state.appStatus = "editor"
    /\ HasActiveProject
    /\ HasActivePage

ProjectIdAt(n) == <<"project-1", "project-2", "project-3", "project-4">>[n]

----------------------------------------------------------------------------
(* Session and dashboard, localStorage variant *)

InitializeSession ==
    /\ variant = "local"
    /\ state.appStatus = "loading"
    /\ Dispatch(Act("INITIALIZE_SESSION"))
    /\ UNCHANGED <<variant, database, uiVars, clock>>

\* AuthScreen.handleLogin / handleRegister
HandleLoginLocal ==
    /\ variant = "local"
    /\ state.appStatus = "auth"
    /\ Dispatch2(ActP("LOAD_PROJECTS", localStorage.projects), ActP("LOGIN", User))
    /\ UNCHANGED <<variant, database, uiVars, clock>>

LogoutLocal ==
    /\ variant = "local"
    /\ state.appStatus = "dashboard"
    /\ Dispatch(Act("LOGOUT"))
    /\ UNCHANGED <<variant, database, uiVars, clock>>

HandleCreateProjectLocal ==
    /\ variant = "local"
    /\ state.appStatus = "dashboard"
    /\ clock < MaxIds
    /\ clock' = clock + 1
    /\ Dispatch(ActP("CREATE_PROJECT", newProject(ProjectIdAt(clock + 1), "New")))
    /\ UNCHANGED <<variant, database, uiVars>>

HandleDeleteProjectLocal ==
    /\ variant = "local"
    /\ state.appStatus = "dashboard"
    /\ \E index \in 0..(Len(state.projects) - 1) :
          Dispatch(ActP("DELETE_PROJECT", index))
    /\ UNCHANGED <<variant, database, uiVars, clock>>

SelectProjectLocal ==
    /\ variant = "local"
    /\ state.appStatus = "dashboard"
    /\ \E index \in 0..(Len(state.projects) - 1) :
          Dispatch(ActP("SELECT_PROJECT", index))
    /\ UNCHANGED <<variant, database, uiVars, clock>>

ExitEditor ==
    /\ variant = "local"
    /\ EditorRendered
    /\ Dispatch(Act("EXIT_EDITOR"))
    /\ UNCHANGED <<variant, database, uiVars, clock>>

----------------------------------------------------------------------------
(* Session and dashboard, Supabase variant *)

\* getSession() and the onAuthStateChange listener
SetSession ==
    /\ variant = "supabase"
    /\ \E session \in {Null, User} : Dispatch(ActP("SET_SESSION", session))
    /\ UNCHANGED <<variant, database, uiVars, clock>>

HandleLogoutSupabase ==
    /\ variant = "supabase"
    /\ state.appStatus = "dashboard"
    /\ Dispatch(Act("LOGOUT"))
    /\ UNCHANGED <<variant, database, uiVars, clock>>

\* DashboardScreen effect fetchProjects
FetchProjects ==
    /\ variant = "supabase"
    /\ state.appStatus = "dashboard"
    /\ state.session # Null
    /\ Dispatch(ActP("SET_PROJECTS", database))
    /\ UNCHANGED <<variant, database, uiVars, clock>>

HandleCreateProjectSupabase ==
    /\ variant = "supabase"
    /\ state.appStatus = "dashboard"
    /\ clock < MaxIds
    /\ clock' = clock + 1
    /\ LET data == newProject(ProjectIdAt(clock + 1), "New")
       IN  /\ database' = Append(database, data)
           /\ Dispatch2(ActP("SET_PROJECTS", Append(state.projects, data)),
                        ActP("SET_ACTIVE_PROJECT", data))
    /\ UNCHANGED <<variant, uiVars>>

HandleDeleteProjectSupabase ==
    /\ variant = "supabase"
    /\ state.appStatus = "dashboard"
    /\ \E k \in 1..Len(state.projects) :
          /\ database' = SelectSeq(database,
                                   LAMBDA p : p.id # state.projects[k].id)
          /\ Dispatch(ActP("DELETE_PROJECT_FROM_LIST", state.projects[k].id))
    /\ UNCHANGED <<variant, uiVars, clock>>

SelectProjectSupabase ==
    /\ variant = "supabase"
    /\ state.appStatus = "dashboard"
    /\ \E k \in 1..Len(state.projects) :
          Dispatch(ActP("SET_ACTIVE_PROJECT", state.projects[k]))
    /\ UNCHANGED <<variant, database, uiVars, clock>>

GoToDashboard ==
    /\ variant = "supabase"
    /\ EditorRendered
    /\ Dispatch(Act("GO_TO_DASHBOARD"))
    /\ UNCHANGED <<variant, database, uiVars, clock>>

----------------------------------------------------------------------------
(* Editor history, both reducer variants *)

HistoryRoom == Len(state.editor.past) + Len(state.editor.future) < MaxPast

\* an editor control dispatching UPDATE_EDITOR_STATE with a partial payload
Commit ==
    /\ EditorRendered
    /\ HistoryRoom
    /\ \E payload \in PartialEditorStates :
          Dispatch(ActP("UPDATE_EDITOR_STATE", payload))
    /\ UNCHANGED <<variant, database, uiVars, clock>>

\* the keyboard shortcuts are bound whenever appStatus is 'editor'
Undo ==
    /\ variant \in {"local", "supabase"}
    /\ state.appStatus = "editor"
    /\ Dispatch(Act("UNDO"))
    /\ UNCHANGED <<variant, database, uiVars, clock>>

Redo ==
    /\ variant \in {"local", "supabase"}
    /\ state.appStatus = "editor"
    /\ Dispatch(Act("REDO"))
    /\ UNCHANGED <<variant, database, uiVars, clock>>

\* handleImportJson with a well-formed file
HandleImportJson ==
    /\ EditorRendered
    /\ \E data \in EditorStates : Dispatch(ActP("SET_EDITOR_STATE", data))
    /\ UNCHANGED <<variant, database, uiVars, clock>>

----------------------------------------------------------------------------
(* Autosave, both reducer variants *)

\* the record that the project open in state s has in the stores ls and db
StoredAt(s, ls, db) ==
    IF variant = "local"
    THEN ls.projects[s.activeProjectIndex + 1]
    ELSE LET rows == SelectSeq(db, LAMBDA p : p.id = s.activeProject.id)
         IN  IF rows = <<>> THEN NullProject ELSE rows[1]

Stored == StoredAt(state, localStorage, database)

\* projects.update(...).eq('id', id): the rows after the update
UpdateRows(rows, timer) ==
    [k \in 1..Len(rows) |->
        IF rows[k].id = timer.id
        THEN [rows[k] EXCEPT !.pages = timer.pages,
                             !.activePageIndex = timer.activePageIndex]
        ELSE rows[k]]

\* the oldest autosave timer fires.  localStorage variant: it dispatches
\* SAVE_PROJECT_TO_STORE, and the reducer writes the present of that moment.
\* Supabase variant: it sends the update of the state it closed over, which
\* the database applies or rejects
AutosaveFires ==
    /\ timers # <<>>
    /\ timers' = Tail(timers)
    /\ IF variant = "local"
       THEN /\ state' = appReducer(state, Act("SAVE_PROJECT_TO_STORE"))
            /\ localStorage' =
                  localStorageAfter(state, Act("SAVE_PROJECT_TO_STORE"), localStorage)
            /\ UNCHANGED <<database, saves>>
       ELSE /\ Len(saves) < MaxSaves
            /\ \E applied \in BOOLEAN :
                  LET rows == UpdateRows(database, timers[1])
                      found == SelectSeq(rows, LAMBDA p : p.id = timers[1].id)
                  IN  IF applied /\ found # <<>>
                      THEN /\ database' = rows
                           /\ saves' = Append(saves, [data |-> found[1], error |-> Null])
                      ELSE /\ database' = database
                           /\ saves' = Append(saves, [data |-> NullProject,
                                                      error |-> BackendErrorMessage])
            /\ UNCHANGED <<state, localStorage>>
    /\ UNCHANGED <<variant, uiVars, clock, committedSinceOpen>>

\* a reply handler that sets a new autosave timer when the update failed
SaveReturned_Retry ==
    /\ variant = "supabase"
    /\ saves # <<>>
    /\ state' = IF saves[1].error # Null THEN state
                ELSE appReducer(state, ActP("UPDATE_ACTIVE_PROJECT_IN_LIST",
                                            saves[1].data))
    /\ timers' = IF saves[1].error # Null /\ AutosaveCondition(state)
                 THEN <<NewTimer(state)>>
                 ELSE autosaveEffect(state, state',
                                     {"UPDATE_ACTIVE_PROJECT_IN_LIST"}, timers)
    /\ saves' = Tail(saves)
    /\ UNCHANGED <<variant, localStorage, database, uiVars, clock, committedSinceOpen>>

\* Supabase variant: the reply of an autosave update arrives; an error is
\* logged, a row is dispatched as UPDATE_ACTIVE_PROJECT_IN_LIST
SaveReturned ==
    /\ variant = "supabase"
    /\ saves # <<>>
    /\ state' = IF saves[1].error # Null THEN state
                ELSE appReducer(state, ActP("UPDATE_ACTIVE_PROJECT_IN_LIST",
                                            saves[1].data))
    /\ timers' = autosaveEffect(state, state', {"UPDATE_ACTIVE_PROJECT_IN_LIST"},
                                timers)
    /\ saves' = Tail(saves)
    /\ UNCHANGED <<variant, localStorage, database, uiVars, clock, committedSinceOpen>>

----------------------------------------------------------------------------
(* The reducer variants: session, dashboard and editor history *)

Init ==
    /\ variant \in {"local", "supabase"}
    /\ state = IF variant = "local" THEN initialStateLocal
               ELSE initialStateSupabase
    /\ localStorage \in
          IF variant = "local"
          THEN {[session |-> Null, projects |-> <<>>],
                [session |-> Null, projects |-> <<SeedProject>>]}
          ELSE {[session |-> Null, projects |-> <<>>]}
    /\ database \in IF variant = "supabase" THEN {<<>>, <<SeedProject>>}
                   ELSE {<<>>}
    /\ focusedItems = noFocus
    /\ isChatLoading = FALSE
    /\ isProcessingImage = FALSE
    /\ requests = <<>>
    /\ aiCalls = 0
    /\ blobWrites = 0
    /\ clock = 0
    /\ timers = <<>>
    /\ saves = <<>>
    /\ committedSinceOpen = FALSE

Next ==
    \/ InitializeSession
    \/ HandleLoginLocal
    \/ LogoutLocal
    \/ HandleCreateProjectLocal
    \/ HandleDeleteProjectLocal
    \/ SelectProjectLocal
    \/ ExitEditor
    \/ SetSession
    \/ HandleLogoutSupabase
    \/ FetchProjects
    \/ HandleCreateProjectSupabase
    \/ HandleDeleteProjectSupabase
    \/ SelectProjectSupabase
    \/ GoToDashboard
    \/ Commit
    \/ Undo
    \/ Redo
    \/ HandleImportJson

Spec == Init /\ [][Next]_vars

----------------------------------------------------------------------------
(* Properties of the history reducer, checked under Spec *)

Update(payload) == ActP("UPDATE_EDITOR_STATE", payload)

RECURSIVE Repeat(_, _, _)
\* dispatch the action `type` n times from s
Repeat(s, type, n) ==
    IF n = 0 THEN s ELSE Repeat(appReducer(s, Act(type)), type, n - 1)

\* C1: from every reachable history, k UNDOs (k at most the number of past
\* entries) followed by k REDOs, with no Commit in between, give back exactly
\* the present that was current before the undos.
C1_UndoRedoInverse ==
    \A k \in 0..Len(state.editor.past) :
        Repeat(Repeat(state, "UNDO", k), "REDO", k).editor.present = present

\* a history with two past entries, all three snapshots different, whose two
\* undos move both of them into future
C1_Witness ==
    /\ state.appStatus = "editor"
    /\ Len(state.editor.past) = 2
    /\ state.editor.past[1] # state.editor.past[2]
    /\ state.editor.past[2] # present
    /\ state.editor.past[1] # present
    /\ Len(Repeat(state, "UNDO", 2).editor.future) = 2

\* C2: an UPDATE_EDITOR_STATE whose payload (pages only, activePageIndex only,
\* or both) merged with present is deep-equal to present is a no-op in both
\* reducer variants: the state, with past, present and future, is unchanged.
C2_RedundantCommitIsNoOp ==
    state.appStatus = "editor" =>
        \A payload \in PartialEditorStates :
            Spread(present, payload) = present =>
                appReducer(state, Update(payload)) = state

\* C3 as stated: after any UPDATE_EDITOR_STATE dispatch, from any history,
\* editor.future is empty.
C3_FutureEmptyAfterAnyDispatch ==
    state.appStatus = "editor" =>
        \A payload \in PartialEditorStates :
            appReducer(state, Update(payload)).editor.future = <<>>

\* C3 amended: after an UPDATE_EDITOR_STATE dispatch whose payload merged with
\* present differs from present, editor.future is empty and past has grown by
\* the old present.
C3_FutureEmptyAfterEffectiveCommit ==
    state.appStatus = "editor" =>
        \A payload \in PartialEditorStates :
            Spread(present, payload) # present =>
                LET after == appReducer(state, Update(payload))
                IN  /\ after.editor.future = <<>>
                    /\ after.editor.past = Append(state.editor.past, present)

\* a history with a non-empty future (after an undo) in which a Commit can
\* still be dispatched
C3_Witness ==
    /\ EditorRendered
    /\ HistoryRoom
    /\ Len(state.editor.future) > 0
    /\ \E payload \in PartialEditorStates : Spread(present, payload) # present

\* C4: UNDO after an effective Commit restores exactly the snapshot that was
\* present before that Commit and puts the undone present at the front of
\* future; in particular Commits {activePageIndex:1}, {activePageIndex:0} and
\* one UNDO give activePageIndex = 1.
C4_UndoRestoresPrevious ==
    state.appStatus = "editor" =>
        /\ \A payload \in PartialEditorStates :
              LET committed == appReducer(state, Update(payload))
                  undone == appReducer(committed, Act("UNDO"))
              IN  committed # state =>
                    /\ undone.editor.present = present
                    /\ undone.editor.past = state.editor.past
                    /\ undone.editor.future = <<committed.editor.present>>
        /\ LET c1 == appReducer(state, Update([activePageIndex |-> 1]))
               c2 == appReducer(c1, Update([activePageIndex |-> 0]))
           IN  /\ appReducer(c2, Act("UNDO")).editor.present = c1.editor.present
               /\ appReducer(c2, Act("UNDO")).editor.present.activePageIndex = 1

\* the state after Commit {activePageIndex:1}, Commit {activePageIndex:0}, UNDO
C4_Witness ==
    /\ state.appStatus = "editor"
    /\ Len(state.editor.past) >= 1
    /\ Len(state.editor.future) = 1
    /\ activePageIndex = 1
    /\ state.editor.future[1].activePageIndex = 0
    /\ state.editor.future[1].pages = pages

\* C5: UNDO with an empty past and REDO with an empty future leave the whole
\* application state (and the store) unchanged.
C5_BoundaryNoOps ==
    /\ Len(state.editor.past) = 0 =>
          /\ appReducer(state, Act("UNDO")) = state
          /\ variant = "local" =>
                localStorageAfter(state, Act("UNDO"), localStorage) = localStorage
    /\ Len(state.editor.future) = 0 =>
          /\ appReducer(state, Act("REDO")) = state
          /\ variant = "local" =>
                localStorageAfter(state, Act("REDO"), localStorage) = localStorage

\* the editor is open with nothing to undo and nothing to redo
C5_Witness ==
    /\ EditorRendered
    /\ Len(state.editor.past) = 0
    /\ Len(state.editor.future) = 0

\* the editor a Reset with this snapshot must leave
ResetTo(snapshot) == [past |-> <<>>, present |-> snapshot, future |-> <<>>]

\* what a Reset must leave: the snapshot, empty past and future, and UNDO and
\* REDO without effect
IsReset(after, snapshot) ==
    /\ after.editor = ResetTo(snapshot)
    /\ appReducer(after, Act("UNDO")) = after
    /\ appReducer(after, Act("REDO")) = after

ProjectSnapshot(project) ==
    [pages |-> project.pages, activePageIndex |-> project.activePageIndex]

\* C6: SET_EDITOR_STATE and the project-opening actions (SELECT_PROJECT and
\* CREATE_PROJECT in the localStorage variant, SET_ACTIVE_PROJECT in the
\* Supabase variant), dispatched from any history, set present to the supplied
\* snapshot with past = [] and future = [], so that UNDO and REDO right after
\* are no-ops.
C6_ResetClearsHistory ==
    /\ \A snapshot \in EditorStates :
          IsReset(appReducer(state, ActP("SET_EDITOR_STATE", snapshot)), snapshot)
    /\ state.appStatus = "dashboard" =>
          /\ \A k \in 1..Len(state.projects) :
                LET project == state.projects[k]
                IN  IF variant = "local"
                    THEN IsReset(appReducer(state, ActP("SELECT_PROJECT", k - 1)),
                                 ProjectSnapshot(project))
                    ELSE IsReset(appReducer(state,
                                            ActP("SET_ACTIVE_PROJECT", project)),
                                 ProjectSnapshot(project))
          /\ variant = "local" =>
                LET project == newProject(ProjectIdAt(clock + 1), "New")
                IN  IsReset(appReducer(state, ActP("CREATE_PROJECT", project)),
                            ProjectSnapshot(project))

\* the project that is open in the editor
OpenProject(s) ==
    IF variant = "local" THEN s.projects[s.activeProjectIndex + 1]
    ELSE s.activeProject

\* C7: every step that takes appStatus to 'editor' leaves the editor reset to
\* the opened project: past = [], future = [], present.pages its stored pages
\* and present.activePageIndex its stored index.
C7_EnteringEditorResets ==
    [][(state.appStatus # "editor" /\ state'.appStatus = "editor") =>
          state'.editor = ResetTo(ProjectSnapshot(OpenProject(state')))]_vars

----------------------------------------------------------------------------
(* The editor screen: handlers of the three variants *)

PageIdAt(n) == <<"page-1", "page-2", "page-3", "page-4">>[n]

\* the error modal covers the screen until it is closed
NoModal ==
    IF variant = "single" THEN ~state.showErrorModal
    ELSE state.errorMessage = Null

\* the editor controls can be clicked
EditorUsable ==
    /\ IF variant = "single" THEN HasActivePage ELSE EditorRendered
    /\ NoModal

setError(s, message) ==
    IF variant = "single"
    THEN [s EXCEPT !.errorMessage = message, !.showErrorModal = TRUE]
    ELSE appReducer(s, ActP("SET_ERROR", message))

setLoading(s, isLoading) ==
    IF variant = "single" THEN [s EXCEPT !.isLoading = isLoading]
    ELSE appReducer(s, ActP("SET_LOADING", isLoading))

\* pages.map((page, index) => index === activePageIndex ? {...page, ...updates} : page)
MapActive(ps, index, updates) ==
    [k \in 1..Len(ps) |->
        IF k = index + 1 THEN Spread(ps[k], updates) ELSE ps[k]]

\* an update applied to the page that is active when the update runs
updatePage_CurrentIndex(s, closure, updates) ==
    IF variant = "single"
    THEN [s EXCEPT !.pages = MapActive(s.pages, s.activePageIndex, updates)]
    ELSE appReducer(s, Update([pages |->
            MapActive(s.editor.present.pages,
                      s.editor.present.activePageIndex, updates)]))

\* updateActivePage (single: a functional update over the previous pages) and
\* updatePage (reducer variants: over the pages of the render that created the
\* handler); closure holds the pages and activePageIndex of that render
updatePage(s, closure, updates) ==
    IF variant = "single"
    THEN [s EXCEPT !.pages = MapActive(s.pages, closure.activePageIndex, updates)]
    ELSE appReducer(s, Update([pages |->
            MapActive(closure.pages, closure.activePageIndex, updates)]))

RemoveRequest(i) == RemoveAt(requests, i - 1)

\* the generate buttons are enabled
GenerateEnabled ==
    CASE variant = "single" -> ~(state.isLoading \/ isProcessingImage)
      [] variant = "local" -> TRUE
      [] OTHER -> ~isChatLoading

MustHaveKeywords(page) == page.id # MasterId /\ Len(page.keywords) = 0

CanvasRendering == "canvas"
BlankCanvas == "blank 960x540"

\* drawingData that takes the canvas whatever the mode
drawingData_AnyMode(mode, page) ==
    IF page.generatedImage # Null THEN CanvasRendering ELSE BlankCanvas

\* the base image of generateMindMap; canvasRef.current is set while the
\* editor is rendered, and the temporary canvas takes the size of the canvas
\* element (960 x 540)
drawingData(mode, page) ==
    IF mode = "evolve" /\ page.generatedImage # Null
    THEN CanvasRendering
    ELSE BlankCanvas

(* The prompt of generateMindMap.  A string is modelled as the sequence of its
   parts: the fixed texts of the template literals, named by their opening
   words, and the interpolated strings. *)

Undefined == "<undefined>"

MasterTask == "YOUR TASK IS TO CREATE A MASTER MIND MAP"
OnPage == "- On page"
MasterEvolve == "Evolve the previous master drawing"
GoldenRule == "GOLDEN RULE"
RuleEvolve == "RULE 2: EVOLVE, DO NOT RESTART"
RuleStartFresh == "RULE 2: START FRESH"
CriticalFocus == "CRITICAL FOCUS FOR THIS UPDATE"
FocusedKeywords == "- Focused Keywords"
FocusedInstructions == "- Focused Instructions"
AdditionalContext == "ADDITIONAL CONTEXT"
FromPage == "- From page"
CoreConcepts == "core concepts"
KeyInstructions == "instructions were"
OverallInstructions == "Overall instructions to follow"
AllConcepts == "All concepts to include"

\* Array.prototype.join: the elements with the separator between them; an
\* undefined element is joined as the empty string
RECURSIVE join(_, _)
join(xs, separator) ==
    IF xs = <<>> THEN <<>>
    ELSE LET x == IF xs[1] = Undefined THEN "" ELSE xs[1]
         IN  IF Len(xs) = 1 THEN <<x>>
             ELSE <<x, separator>> \o join(Tail(xs), separator)

\* a string is truthy when it is not empty
Truthy(string) == \E k \in 1..Len(string) : string[k] # ""

\* array[i], undefined when i is not an index of the array
At(array, i) == IF i + 1 \in 1..Len(array) THEN array[i + 1] ELSE Undefined

\* focusedItems.keywords.map((i) => activePage.keywords[i])
Resolve(indexes, items) == [k \in 1..Len(indexes) |-> At(items, indexes[k])]

\* pages.find((p) => p.id === pageId): the pages found, none or the first
find(ps, pageId) ==
    LET found == SelectSeq(ps, LAMBDA p : p.id = pageId)
    IN  IF found = <<>> THEN <<>> ELSE <<found[1]>>

\* the concatenation of the strings appended in turn by a forEach
RECURSIVE Appended(_)
Appended(strings) ==
    IF strings = <<>> THEN <<>> ELSE strings[1] \o Appended(Tail(strings))

\* `header "${page.name}" ... "${page.keywords.join(', ')}" ...
\*  "${page.instructions.join('. ')}".`
pageEntry(header, page) ==
    <<header, page.name, CoreConcepts>> \o join(page.keywords, ", ")
    \o <<KeyInstructions>> \o join(page.instructions, ". ")

\* master entries that do not skip the pages without keywords
masterEntries_All(ps) ==
    Appended([k \in 1..Len(ps) |->
        IF ps[k].id # MasterId THEN pageEntry(OnPage, ps[k]) ELSE <<>>])

\* pages.filter((p) => p.id !== 'master').forEach(...): one entry for each
\* page that has keywords
masterEntries(ps) ==
    Appended([k \in 1..Len(ps) |->
        IF ps[k].id # MasterId /\ Len(ps[k].keywords) > 0
        THEN pageEntry(OnPage, ps[k])
        ELSE <<>>])

\* a mode rule that is the evolve clause for every mode
modeRule_AlwaysEvolve(mode, page) == <<RuleEvolve, page.name>>

modeRule(mode, page) ==
    IF mode = "evolve" THEN <<RuleEvolve, page.name>>
    ELSE <<RuleStartFresh, page.name>>

focusClause(page, focus) ==
    LET focusedKeywords == Resolve(focus.keywords, page.keywords)
        focusedInstructions == Resolve(focus.instructions, page.instructions)
    IN  IF Len(focusedKeywords) > 0 \/ Len(focusedInstructions) > 0
        THEN <<CriticalFocus>>
             \o (IF Len(focusedKeywords) > 0
                 THEN <<FocusedKeywords>> \o join(focusedKeywords, "\", \"")
                 ELSE <<>>)
             \o (IF Len(focusedInstructions) > 0
                 THEN <<FocusedInstructions>> \o join(focusedInstructions, "\", \"")
                 ELSE <<>>)
        ELSE <<>>

\* context entries that do not skip the ids of pages that are gone
contextEntries_NoSkip(ps, ids) ==
    Appended([k \in 1..Len(ids) |->
        LET contextPage == find(ps, ids[k])
        IN  IF contextPage # <<>> THEN pageEntry(FromPage, contextPage[1])
            ELSE <<FromPage, Undefined>>])

\* activePage.contextPageIds.forEach(...): one entry for each page found
contextEntries(ps, ids) ==
    Appended([k \in 1..Len(ids) |->
        LET contextPage == find(ps, ids[k])
        IN  IF contextPage # <<>> THEN pageEntry(FromPage, contextPage[1])
            ELSE <<>>])

contextPrompt(ps, page) ==
    IF Len(page.contextPageIds) > 0
    THEN <<AdditionalContext>> \o contextEntries(ps, page.contextPageIds)
    ELSE <<>>

\* summaries that leave out the keywords when the page has instructions
summaries_InstructionsOnly(page) ==
    LET allInstructions == join(page.instructions, ". ")
    IN  IF Truthy(allInstructions)
        THEN <<OverallInstructions>> \o allInstructions
        ELSE <<AllConcepts>> \o join(page.keywords, ", ")

summaries(page) ==
    LET allKeywords == join(page.keywords, ", ")
        allInstructions == join(page.instructions, ". ")
    IN  (IF Truthy(allInstructions)
         THEN <<OverallInstructions>> \o allInstructions
         ELSE <<>>)
        \o <<AllConcepts>> \o allKeywords

\* aiPrompt of generateMindMap, from the pages, the active page and the focus
\* of the render
aiPrompt(mode, ps, page, focus) ==
    IF page.id = MasterId
    THEN <<MasterTask>> \o masterEntries(ps)
         \o (IF mode = "evolve" THEN <<MasterEvolve>> ELSE <<>>)
    ELSE <<GoldenRule, page.name>>
         \o modeRule(mode, page)
         \o focusClause(page, focus)
         \o contextPrompt(ps, page)
         \o summaries(page)

\* an asynchronous handler suspended at its await, with what its closure holds
NewRequest(kind, mode) ==
    [kind |-> kind, stage |-> "ai", mode |-> mode,
     drawingData |-> IF kind = "generate" THEN drawingData(mode, activePage)
                     ELSE Null,
     pages |-> pages, activePageIndex |-> activePageIndex, image |-> Null]

\* generateMindMap that raises the busy flag before it validates
generateMindMap_LoadingFirst(mode) ==
    /\ EditorUsable
    /\ GenerateEnabled
    /\ IF MustHaveKeywords(activePage)
       THEN /\ state' = setLoading(setError(state, ValidationMessage), TRUE)
            /\ UNCHANGED <<focusedItems, requests, aiCalls>>
       ELSE /\ Len(requests) < MaxRequests
            /\ aiCalls < MaxCalls
            /\ state' = setLoading(state, TRUE)
            /\ focusedItems' = noFocus
            /\ aiCalls' = aiCalls + 1
            /\ requests' = Append(requests, NewRequest("generate", mode))
    /\ UNCHANGED <<variant, localStorage, database, isChatLoading,
                   isProcessingImage, blobWrites, clock>>
    /\ AfterRender({})

\* generateMindMap up to its await: validation, busy flag, focus reset, the
\* request to the AI backend (the prompt and the base image are built from
\* the render's pages before the await)
generateMindMap(mode) ==
    /\ EditorUsable
    /\ GenerateEnabled
    /\ IF MustHaveKeywords(activePage)
       THEN /\ state' = setError(state, ValidationMessage)
            /\ UNCHANGED <<focusedItems, requests, aiCalls>>
       ELSE /\ Len(requests) < MaxRequests
            /\ aiCalls < MaxCalls
            /\ state' = setLoading(state, TRUE)
            /\ focusedItems' = noFocus
            /\ aiCalls' = aiCalls + 1
            /\ requests' = Append(requests, NewRequest("generate", mode))
    /\ UNCHANGED <<variant, localStorage, database, isChatLoading,
                   isProcessingImage, blobWrites, clock>>
    /\ AfterRender({})

GenerateMindMap == \E mode \in {"evolve", "rethink"} : generateMindMap(mode)

EdgeNoImageMessage == "AI did not return a valid image."
EdgeFunctionErrorMessage == "Edge Function returned a non-2xx status code"

\* the generate-image edge function: response is the image part of the model's
\* answer, Null when the answer has none
serve(response) ==
    IF response = Null
    THEN [status |-> "500", error |-> EdgeNoImageMessage]
    ELSE [status |-> "200", data |-> response]

\* supabase.functions.invoke('generate-image'): a non-2xx reply is an error
\* whose message is not the body of the reply
invoke(response) ==
    LET reply == serve(response)
    IN  IF reply.status = "200"
        THEN [data |-> reply.data, error |-> Null]
        ELSE [data |-> Null, error |-> EdgeFunctionErrorMessage]

\* the image data generateMindMap reads from the answer of the AI backend;
\* in the Supabase variant `if (error) throw error` comes first
ImageData(response) ==
    IF variant = "supabase" THEN invoke(response) ELSE
        [data |-> response, error |-> Null]

\* the AI call of request i answers with an image
ImageReturned(i, image) ==
    /\ requests[i].kind = "generate"
    /\ requests[i].stage = "ai"
    /\ ImageData(image).error = Null
    /\ ImageData(image).data # Null
    /\ IF variant = "supabase"
       THEN /\ blobWrites' = blobWrites + 1
            /\ requests' = [requests EXCEPT ![i].stage = "upload",
                                            ![i].image = image]
            /\ state' = state
       ELSE /\ state' = setLoading(
                  updatePage(state, requests[i], [generatedImage |-> image]),
                  FALSE)
            /\ requests' = RemoveRequest(i)
            /\ blobWrites' = blobWrites
    /\ UNCHANGED <<variant, localStorage, database, focusedItems, isChatLoading,
                   isProcessingImage, aiCalls, clock>>
    /\ AfterRender({"UPDATE_EDITOR_STATE"})

GenerateImageReturned ==
    \E i \in 1..Len(requests), image \in Images : ImageReturned(i, image)

\* the AI call of request i answers without an image part: the else branch of
\* `if (imageData)`, or, when the edge function has answered 500, the catch
\* branch with the message of the thrown error
NoImageAt(i) ==
    /\ requests[i].kind = "generate"
    /\ requests[i].stage = "ai"
    /\ state' = setLoading(
          setError(state, IF ImageData(Null).error # Null
                          THEN ImageData(Null).error
                          ELSE NoImageMessage),
          FALSE)
    /\ requests' = RemoveRequest(i)
    /\ UNCHANGED <<variant, localStorage, database, focusedItems, isChatLoading,
                   isProcessingImage, aiCalls, blobWrites, clock>>
    /\ AfterRender({})

GenerateNoImage == \E i \in 1..Len(requests) : NoImageAt(i)

\* a failure that calls the AI backend once more and keeps waiting
FailedAt_Retry(i) ==
    /\ requests[i].kind = "generate"
    /\ aiCalls < MaxCalls
    /\ aiCalls' = aiCalls + 1
    /\ UNCHANGED <<variant, state, localStorage, database, focusedItems,
                   isChatLoading, isProcessingImage, requests, blobWrites, clock>>
    /\ AfterRender({})

\* a failure that also drops the image of the target page
FailedAt_DropImage(i) ==
    /\ requests[i].kind = "generate"
    /\ state' = setLoading(
          setError(updatePage(state, requests[i], [generatedImage |-> Null]),
                   BackendErrorMessage),
          FALSE)
    /\ requests' = RemoveRequest(i)
    /\ UNCHANGED <<variant, localStorage, database, focusedItems, isChatLoading,
                   isProcessingImage, aiCalls, blobWrites, clock>>
    /\ AfterRender({"UPDATE_EDITOR_STATE"})

\* a failure whose catch is not followed by the finally block
FailedAt_StayBusy(i) ==
    /\ requests[i].kind = "generate"
    /\ state' = setError(state, BackendErrorMessage)
    /\ requests' = RemoveRequest(i)
    /\ UNCHANGED <<variant, localStorage, database, focusedItems, isChatLoading,
                   isProcessingImage, aiCalls, blobWrites, clock>>
    /\ AfterRender({})

\* the AI call of request i (or, in the Supabase variant, its upload) throws:
\* catch and finally
FailedAt(i) ==
    /\ requests[i].kind = "generate"
    /\ state' = setLoading(setError(state, BackendErrorMessage), FALSE)
    /\ requests' = RemoveRequest(i)
    /\ UNCHANGED <<variant, localStorage, database, focusedItems, isChatLoading,
                   isProcessingImage, aiCalls, blobWrites, clock>>
    /\ AfterRender({})

GenerateFailed == \E i \in 1..Len(requests) : FailedAt(i)

\* Supabase variant: the upload of request i returns and the public URL is
\* committed
UploadReturnedAt(i) ==
    /\ variant = "supabase"
    /\ requests[i].kind = "generate"
    /\ requests[i].stage = "upload"
    /\ state' = setLoading(
          updatePage(state, requests[i], [generatedImage |-> requests[i].image]),
          FALSE)
    /\ requests' = RemoveRequest(i)
    /\ UNCHANGED <<variant, localStorage, database, focusedItems, isChatLoading,
                   isProcessingImage, aiCalls, blobWrites, clock>>
    /\ AfterRender({"UPDATE_EDITOR_STATE"})

UploadReturned == \E i \in 1..Len(requests) : UploadReturnedAt(i)

\* single: handlePromptSubmit with a keyword; Supabase: handleAddItem('keyword')
HandleAddKeyword ==
    /\ variant \in {"single", "supabase"}
    /\ EditorUsable
    /\ activePage.id # MasterId
    /\ Len(activePage.keywords) < MaxKeywords
    /\ variant = "supabase" => HistoryRoom
    /\ \E word \in Words :
          state' = updatePage(state, present,
                      [keywords |-> Append(activePage.keywords, word)])
    /\ UNCHANGED <<variant, localStorage, database, uiVars, clock>>
    /\ AfterRender({"UPDATE_EDITOR_STATE"})

\* single: handleDeleteKeyword; Supabase: handleDeleteItem('keyword', index)
HandleDeleteKeyword ==
    /\ variant \in {"single", "supabase"}
    /\ EditorUsable
    /\ activePage.id # MasterId
    /\ variant = "supabase" => HistoryRoom
    /\ \E index \in 0..(Len(activePage.keywords) - 1) :
          state' = updatePage(state, present,
                      [keywords |-> RemoveAt(activePage.keywords, index)])
    /\ UNCHANGED <<variant, localStorage, database, uiVars, clock>>
    /\ AfterRender({"UPDATE_EDITOR_STATE"})

\* single: a page tab is clicked
SetActivePageIndex ==
    /\ variant = "single"
    /\ EditorUsable
    /\ \E index \in 0..(Len(pages) - 1) :
          state' = [state EXCEPT !.activePageIndex = index]
    /\ UNCHANGED <<variant, localStorage, database, uiVars, clock>>
    /\ AfterRender({})

\* single: handleAddNewPage
HandleAddNewPage ==
    /\ variant = "single"
    /\ EditorUsable
    /\ Len(pages) < MaxPages
    /\ clock < MaxIds
    /\ clock' = clock + 1
    /\ state' = [state EXCEPT
          !.pages = Append(pages, createNewPage(PageIdAt(clock + 1), "Ideas")),
          !.activePageIndex = Len(pages)]
    /\ UNCHANGED <<variant, localStorage, database, uiVars>>
    /\ AfterRender({})

\* single: handleDeletePage from the delete button of the active tab, with
\* window.confirm accepted
HandleDeletePage ==
    /\ variant = "single"
    /\ EditorUsable
    /\ activePageIndex # 0
    /\ state' = [state EXCEPT
          !.pages = RemoveAt(pages, activePageIndex),
          !.activePageIndex = IF activePageIndex - 1 > 0
                              THEN activePageIndex - 1 ELSE 0]
    /\ UNCHANGED <<variant, localStorage, database, uiVars, clock>>
    /\ AfterRender({})

\* currentItems.includes(index) ? currentItems.filter(i => i !== index)
\*                              : [...currentItems, index]
Toggle(currentItems, index) ==
    IF \E k \in 1..Len(currentItems) : currentItems[k] = index
    THEN SelectSeq(currentItems, LAMBDA i : i # index)
    ELSE Append(currentItems, index)

\* single: handleToggleFocus('keyword', index) on a keyword of the active page
HandleToggleFocus ==
    /\ variant = "single"
    /\ EditorUsable
    /\ activePage.id # MasterId
    /\ \E index \in 0..(Len(activePage.keywords) - 1) :
          /\ Len(Toggle(focusedItems.keywords, index)) <= MaxFocus
          /\ focusedItems' =
                [focusedItems EXCEPT !.keywords = Toggle(focusedItems.keywords, index)]
    /\ UNCHANGED <<variant, state, localStorage, database, isChatLoading,
                   isProcessingImage, requests, aiCalls, blobWrites, clock>>
    /\ AfterRender({})

\* single: handleImageInputChange up to its await
HandleImageInputChange ==
    /\ variant = "single"
    /\ EditorUsable
    /\ ~(isChatLoading \/ isProcessingImage)
    /\ activePage.id # MasterId
    /\ Len(requests) < MaxRequests
    /\ aiCalls < MaxCalls
    /\ isProcessingImage' = TRUE
    /\ aiCalls' = aiCalls + 1
    /\ requests' = Append(requests, NewRequest("extract", Null))
    /\ UNCHANGED <<variant, state, localStorage, database, focusedItems,
                   isChatLoading, blobWrites, clock>>
    /\ AfterRender({})

\* single: the image analysis returns; extracted is parsed.keywords
ImageAnalysisReturned ==
    /\ variant = "single"
    /\ \E i \in 1..Len(requests), extracted \in {<<>>, <<"Light">>} :
          /\ requests[i].kind = "extract"
          /\ state' =
                IF Len(extracted) > 0
                THEN updatePage(state, requests[i],
                        [keywords |->
                            requests[i].pages[requests[i].activePageIndex + 1].keywords
                            \o extracted])
                ELSE state
          /\ requests' = RemoveRequest(i)
    /\ isProcessingImage' = FALSE
    /\ UNCHANGED <<variant, localStorage, database, focusedItems, isChatLoading,
                   aiCalls, blobWrites, clock>>
    /\ AfterRender({})

\* handleSendChatMessage up to its await
HandleSendChatMessage ==
    /\ EditorUsable
    /\ CASE variant = "single" -> ~(isChatLoading \/ isProcessingImage)
         [] variant = "local" -> TRUE
         [] OTHER -> ~isChatLoading
    /\ isChatLoading' = TRUE
    /\ UNCHANGED <<variant, state, localStorage, database, focusedItems,
                   isProcessingImage, requests, aiCalls, blobWrites, clock>>
    /\ AfterRender({})

\* the chat reply (or its failure, reported in the chat history) arrives
ChatReturned ==
    /\ isChatLoading
    /\ isChatLoading' = FALSE
    /\ UNCHANGED <<variant, state, localStorage, database, focusedItems,
                   isProcessingImage, requests, aiCalls, blobWrites, clock>>
    /\ AfterRender({})

\* the error modal is closed
CloseErrorModal ==
    /\ ~NoModal
    /\ state' = IF variant = "single" THEN [state EXCEPT !.showErrorModal = FALSE]
                ELSE appReducer(state, ActP("SET_ERROR", Null))
    /\ UNCHANGED <<variant, localStorage, database, uiVars, clock>>
    /\ AfterRender({})

\* the project opened in the editor of a reducer variant
OpenedProjects ==
    {[id |-> "project-0", name |-> "Seed", pages |-> ps, activePageIndex |-> i] :
        ps \in {PagesIdeas, PagesBrain}, i \in PageIndexes}

Loggedin(s, project) ==
    IF variant = "local"
    THEN [s EXCEPT !.appStatus = "dashboard", !.currentUser = User,
                   !.projects = <<project>>]
    ELSE [s EXCEPT !.appStatus = "dashboard", !.session = User,
                   !.projects = <<project>>]

\* the editor right after a project was opened (reducer variants) or the
\* component was mounted (single)
InitUI ==
    /\ variant \in {"single", "local", "supabase"}
    /\ \E project \in OpenedProjects :
          /\ state =
                CASE variant = "single" -> initialStateSingle
                  [] variant = "local" ->
                        appReducerLocal(Loggedin(initialStateLocal, project),
                                        ActP("SELECT_PROJECT", 0),
                                        [session |-> Null, projects |-> <<project>>])
                  [] OTHER ->
                        appReducerSupabase(Loggedin(initialStateSupabase, project),
                                           ActP("SET_ACTIVE_PROJECT", project))
          /\ localStorage = [session |-> Null,
                             projects |-> IF variant = "local" THEN <<project>>
                                          ELSE <<>>]
          /\ database = IF variant = "supabase" THEN <<project>> ELSE <<>>
    /\ focusedItems = noFocus
    /\ isChatLoading = FALSE
    /\ isProcessingImage = FALSE
    /\ requests = <<>>
    /\ aiCalls = 0
    /\ blobWrites = 0
    /\ clock = 0
    /\ timers = <<>>
    /\ saves = <<>>
    /\ committedSinceOpen = FALSE

NextUI ==
    \/ GenerateMindMap
    \/ GenerateImageReturned
    \/ GenerateNoImage
    \/ GenerateFailed
    \/ UploadReturned
    \/ HandleAddKeyword
    \/ HandleDeleteKeyword
    \/ SetActivePageIndex
    \/ HandleAddNewPage
    \/ HandleDeletePage
    \/ HandleToggleFocus
    \/ HandleImageInputChange
    \/ ImageAnalysisReturned
    \/ HandleSendChatMessage
    \/ ChatReturned
    \/ CloseErrorModal
    \/ Undo
    \/ Redo

SpecUI == InitUI /\ [][NextUI]_vars

\* the AI backend or the blob store answers a pending generation
GenerationAnswered ==
    \/ GenerateImageReturned
    \/ GenerateNoImage
    \/ GenerateFailed
    \/ UploadReturned

\* the generation and what it needs: keywords, the modal, the page tabs
NextGenerate ==
    \/ GenerateMindMap
    \/ GenerateImageReturned
    \/ GenerateNoImage
    \/ GenerateFailed
    \/ UploadReturned
    \/ HandleAddKeyword
    \/ HandleDeleteKeyword
    \/ HandleAddNewPage
    \/ SetActivePageIndex
    \/ CloseErrorModal

\* every call to the AI backend or the blob store returns or throws
SpecGenerate ==
    InitUI /\ [][NextGenerate]_vars /\ WF_vars(GenerationAnswered)

----------------------------------------------------------------------------
(* The reducer variants with the autosave timer: a signed-in user who opens,
   edits, leaves and creates projects *)

InitSave ==
    /\ variant \in {"local", "supabase"}
    /\ state = Loggedin(IF variant = "local" THEN initialStateLocal
                        ELSE initialStateSupabase, SeedProject)
    /\ localStorage = [session |-> Null,
                       projects |-> IF variant = "local" THEN <<SeedProject>>
                                    ELSE <<>>]
    /\ database = IF variant = "supabase" THEN <<SeedProject>> ELSE <<>>
    /\ focusedItems = noFocus
    /\ isChatLoading = FALSE
    /\ isProcessingImage = FALSE
    /\ requests = <<>>
    /\ aiCalls = 0
    /\ blobWrites = 0
    /\ clock = MaxIds - 1
    /\ timers = <<>>
    /\ saves = <<>>
    /\ committedSinceOpen = FALSE

\* the edits and the file the autosave is exercised with
SavedEdits == {[pages |-> PagesIdeas], [activePageIndex |-> 0]}
ImportedFile == [pages |-> PagesIdeas, activePageIndex |-> 1]

\* updatePage / setActivePageIndex: UPDATE_EDITOR_STATE with one key
CommitEdit ==
    /\ EditorRendered
    /\ HistoryRoom
    /\ \E payload \in SavedEdits :
          Dispatch(ActP("UPDATE_EDITOR_STATE", payload))
    /\ UNCHANGED <<variant, database, uiVars, clock>>

\* handleImportJson with the file
ImportFile ==
    /\ EditorRendered
    /\ Dispatch(ActP("SET_EDITOR_STATE", ImportedFile))
    /\ UNCHANGED <<variant, database, uiVars, clock>>

NextSave ==
    \/ HandleCreateProjectLocal
    \/ SelectProjectLocal
    \/ ExitEditor
    \/ HandleCreateProjectSupabase
    \/ SelectProjectSupabase
    \/ GoToDashboard
    \/ CommitEdit
    \/ Undo
    \/ Redo
    \/ ImportFile
    \/ AutosaveFires
    \/ SaveReturned

SpecSave == InitSave /\ [][NextSave]_vars

\* the timer callback runs when its delay has passed, and the database answers
SpecSaveFair ==
    /\ SpecSave
    /\ WF_vars(AutosaveFires)
    /\ WF_vars(SaveReturned)

----------------------------------------------------------------------------
(* The JSON import of the reducer variants with any file *)

\* the files given to the import: text is the result of JSON.parse, absent
\* when the text of the file is not JSON
JsonFiles ==
    {[name |-> "notes.txt"],
     [name |-> "settings.json", text |-> [activePageIndex |-> 1]],
     [name |-> "export.json",
      text |-> [pages |-> PagesIdeas, activePageIndex |-> 1]],
     [name |-> "pages.json", text |-> [pages |-> <<IdeasPage>>]]}

\* data.activePageIndex ?? 0
activePageIndexOr0(data) ==
    IF "activePageIndex" \in DOMAIN data THEN data.activePageIndex ELSE 0

\* the try block of handleImportJson throws: JSON.parse on a text that is not
\* JSON, or, in the localStorage variant, data.pages.map on undefined
ImportThrows(file) ==
    \/ "text" \notin DOMAIN file
    \/ variant = "local" /\ "pages" \notin DOMAIN file.text

\* the payload of SET_EDITOR_STATE; pages: undefined is a payload without pages
ImportPayload(data) ==
    IF "pages" \in DOMAIN data
    THEN [pages |-> data.pages, activePageIndex |-> activePageIndexOr0(data)]
    ELSE [activePageIndex |-> activePageIndexOr0(data)]

\* handleImportJson with window.confirm accepted
ImportJson ==
    /\ EditorRendered
    /\ NoModal
    /\ \E file \in JsonFiles :
          IF ImportThrows(file)
          THEN Dispatch(ActP("SET_ERROR", ImportErrorMessage))
          ELSE Dispatch(ActP("SET_EDITOR_STATE", ImportPayload(file.text)))
    /\ UNCHANGED <<variant, database, uiVars, clock>>

NextImport ==
    \/ SelectProjectLocal
    \/ ExitEditor
    \/ SelectProjectSupabase
    \/ GoToDashboard
    \/ CommitEdit
    \/ Undo
    \/ Redo
    \/ ImportJson
    \/ CloseErrorModal

SpecImport == InitSave /\ [][NextImport]_vars

----------------------------------------------------------------------------
(* The prompt composer applied to documents with three pages *)

NotesPage ==
    [createNewPage("page-3", "Notes") EXCEPT !.keywords = <<"Light">>]

\* "page-9" is the id of a page that was deleted
PromptPagesA ==
    {[createNewPage("page-1", "Ideas") EXCEPT
         !.keywords = ks, !.instructions = is, !.contextPageIds = cs] :
        ks \in {<<>>, <<"Brain">>, <<"Brain", "Light">>},
        is \in {<<>>, <<"Use blue">>},
        cs \in {<<>>, <<"page-3", "page-2">>, <<"page-9", "page-2">>}}

PromptPagesB ==
    {[createNewPage("page-2", "Plans") EXCEPT !.keywords = ks, !.instructions = is] :
        ks \in {<<>>, <<"Light">>}, is \in {<<>>, <<"Be bold">>}}

PromptDocuments ==
    {[pages |-> <<MasterPage, a, b, NotesPage>>, activePageIndex |-> i] :
        a \in PromptPagesA, b \in PromptPagesB, i \in {0, 1, 2}}

\* the focus selections; only the single-document variant has a control that
\* selects
PromptFocus ==
    {[keywords |-> ks, instructions |-> is] :
        ks \in {<<>>, <<0>>, <<1, 0>>}, is \in {<<>>, <<0>>}}

InitPrompt ==
    /\ variant \in {"single", "local", "supabase"}
    /\ \E d \in PromptDocuments :
          LET project == [id |-> "project-0", name |-> "Seed", pages |-> d.pages,
                          activePageIndex |-> d.activePageIndex]
          IN  /\ state =
                    CASE variant = "single" ->
                            [initialStateSingle EXCEPT
                                !.pages = d.pages,
                                !.activePageIndex = d.activePageIndex]
                      [] variant = "local" ->
                            appReducerLocal(Loggedin(initialStateLocal, project),
                                            ActP("SELECT_PROJECT", 0),
                                            [session |-> Null, projects |-> <<project>>])
                      [] OTHER ->
                            appReducerSupabase(Loggedin(initialStateSupabase, project),
                                               ActP("SET_ACTIVE_PROJECT", project))
              /\ localStorage = [session |-> Null,
                                 projects |-> IF variant = "local" THEN <<project>>
                                              ELSE <<>>]
              /\ database = IF variant = "supabase" THEN <<project>> ELSE <<>>
    /\ focusedItems \in (IF variant = "single" THEN PromptFocus ELSE {noFocus})
    /\ isChatLoading = FALSE
    /\ isProcessingImage = FALSE
    /\ requests = <<>>
    /\ aiCalls = 0
    /\ blobWrites = 0
    /\ clock = 0
    /\ timers = <<>>
    /\ saves = <<>>
    /\ committedSinceOpen = FALSE

\* generateMindMap up to its await, with the base image and the prompt it
\* sends to the AI backend
ComposePrompt ==
    /\ EditorUsable
    /\ GenerateEnabled
    /\ requests = <<>>
    /\ \E mode \in {"evolve", "rethink"} :
          IF MustHaveKeywords(activePage)
          THEN /\ state' = setError(state, ValidationMessage)
               /\ UNCHANGED <<focusedItems, requests, aiCalls>>
          ELSE /\ state' = setLoading(state, TRUE)
               /\ focusedItems' = noFocus
               /\ aiCalls' = aiCalls + 1
               /\ requests' =
                     <<[kind |-> "prompt", mode |-> mode,
                        drawingData |-> drawingData(mode, activePage),
                        prompt |-> aiPrompt(mode, pages, activePage, focusedItems),
                        focusedItems |-> focusedItems,
                        pages |-> pages, activePageIndex |-> activePageIndex]>>
    /\ UNCHANGED <<variant, localStorage, database, isChatLoading,
                   isProcessingImage, blobWrites, clock>>
    /\ AfterRender({})

NextPrompt == ComposePrompt

SpecPrompt == InitPrompt /\ [][NextPrompt]_vars

----------------------------------------------------------------------------
(* The document handlers: pages, keywords, context pages, import *)

\* options that offer every page that is not yet a context page
contextOptions_All(ps, page) ==
    SelectSeq(ps, LAMBDA p :
        ~\E k \in 1..Len(page.contextPageIds) : page.contextPageIds[k] = p.id)

\* the options of the context select of the active page
contextOptions(ps, page) ==
    SelectSeq(ps, LAMBDA p :
        /\ p.id # page.id
        /\ p.id # MasterId
        /\ ~\E k \in 1..Len(page.contextPageIds) : page.contextPageIds[k] = p.id)

\* single: handleAddContext with an option of the select
HandleAddContext ==
    /\ variant = "single"
    /\ EditorUsable
    /\ activePage.id # MasterId
    /\ \E k \in 1..Len(contextOptions(pages, activePage)) :
          LET pageId == contextOptions(pages, activePage)[k].id
          IN  state' = updatePage(state, present,
                  [contextPageIds |-> Append(activePage.contextPageIds, pageId)])
    /\ UNCHANGED <<variant, localStorage, database, uiVars, clock>>
    /\ AfterRender({})

\* single: handleRemoveContext from the button of a listed context page; an
\* id without a page is not listed
HandleRemoveContext ==
    /\ variant = "single"
    /\ EditorUsable
    /\ activePage.id # MasterId
    /\ \E k \in 1..Len(activePage.contextPageIds) :
          LET pageId == activePage.contextPageIds[k]
          IN  /\ find(pages, pageId) # <<>>
              /\ state' = updatePage(state, present,
                    [contextPageIds |->
                        SelectSeq(activePage.contextPageIds, LAMBDA id : id # pageId)])
    /\ UNCHANGED <<variant, localStorage, database, uiVars, clock>>
    /\ AfterRender({})

\* single: clearProject
ClearProject ==
    /\ variant = "single"
    /\ EditorUsable
    /\ state' = [state EXCEPT !.pages = <<createNewPage(MasterId, "Master")>>,
                              !.activePageIndex = 0]
    /\ focusedItems' = noFocus
    /\ UNCHANGED <<variant, localStorage, database, isChatLoading,
                   isProcessingImage, requests, aiCalls, blobWrites, clock>>
    /\ AfterRender({})

\* single: handleAddNewPage, up to the third page
AddPage ==
    /\ variant = "single"
    /\ EditorUsable
    /\ Len(pages) < MaxDocPages
    /\ clock < MaxIds
    /\ clock' = clock + 1
    /\ state' = [state EXCEPT
          !.pages = Append(pages, createNewPage(PageIdAt(clock + 1), "Ideas")),
          !.activePageIndex = Len(pages)]
    /\ UNCHANGED <<variant, localStorage, database, uiVars>>
    /\ AfterRender({})

\* the parsed content of the files given to the import: a project export, a
\* file whose pages have no master page, a file whose master page is second,
\* a file whose index is the number of its pages
ImportFiles ==
    {[pages |-> PagesIdeas, activePageIndex |-> 1],
     [pages |-> <<IdeasPage>>],
     [pages |-> <<IdeasPage, MasterPage>>, activePageIndex |-> 0],
     [pages |-> PagesIdeas, activePageIndex |-> 2]}

\* handleImportJson with a file that parses and has pages
ImportJsonFile ==
    /\ EditorRendered
    /\ NoModal
    /\ \E data \in ImportFiles :
          Dispatch(ActP("SET_EDITOR_STATE",
                        [pages |-> data.pages,
                         activePageIndex |-> activePageIndexOr0(data)]))
    /\ UNCHANGED <<variant, database, uiVars, clock>>

NextDoc ==
    \/ AddPage
    \/ HandleDeletePage
    \/ SetActivePageIndex
    \/ HandleAddKeyword
    \/ HandleDeleteKeyword
    \/ HandleAddContext
    \/ HandleRemoveContext
    \/ ClearProject
    \/ ImportJsonFile
    \/ Undo
    \/ Redo

SpecDoc == InitUI /\ [][NextDoc]_vars

----------------------------------------------------------------------------
(* The saved versions of a page (single-document component) *)

\* activePage.versions.includes(image)
includes(versions, image) == \E k \in 1..Len(versions) : versions[k] = image

\* handleSaveVersion from the "Salvar" button, which is disabled while busy or
\* without a generated image; an image already saved is not saved again
HandleSaveVersion ==
    /\ variant = "single"
    /\ EditorUsable
    /\ ~(state.isLoading \/ isProcessingImage)
    /\ activePage.generatedImage # Null
    /\ ~includes(activePage.versions, activePage.generatedImage)
    /\ state' = updatePage(state, present,
          [versions |-> Append(activePage.versions, activePage.generatedImage)])
    /\ UNCHANGED <<variant, localStorage, database, uiVars, clock>>
    /\ AfterRender({})

\* handleDeleteVersion from the delete button of a thumbnail of the gallery
HandleDeleteVersion ==
    /\ variant = "single"
    /\ EditorUsable
    /\ \E indexToDelete \in 0..(Len(activePage.versions) - 1) :
          state' = updatePage(state, present,
              [versions |-> RemoveAt(activePage.versions, indexToDelete)])
    /\ UNCHANGED <<variant, localStorage, database, uiVars, clock>>
    /\ AfterRender({})

\* handleRestoreVersion from a thumbnail of the gallery
HandleRestoreVersion ==
    /\ variant = "single"
    /\ EditorUsable
    /\ \E versionIndex \in 0..(Len(activePage.versions) - 1) :
          state' = updatePage(state, present,
              [generatedImage |-> activePage.versions[versionIndex + 1]])
    /\ UNCHANGED <<variant, localStorage, database, uiVars, clock>>
    /\ AfterRender({})

\* the single-document component after it was mounted
InitVersions ==
    /\ variant = "single"
    /\ state = initialStateSingle
    /\ localStorage = [session |-> Null, projects |-> <<>>]
    /\ database = <<>>
    /\ focusedItems = noFocus
    /\ isChatLoading = FALSE
    /\ isProcessingImage = FALSE
    /\ requests = <<>>
    /\ aiCalls = 0
    /\ blobWrites = 0
    /\ clock = 0
    /\ timers = <<>>
    /\ saves = <<>>
    /\ committedSinceOpen = FALSE

NextVersions ==
    \/ GenerateMindMap
    \/ GenerateImageReturned
    \/ HandleSaveVersion
    \/ HandleDeleteVersion
    \/ HandleRestoreVersion
    \/ HandleAddNewPage
    \/ SetActivePageIndex
    \/ CloseErrorModal

SpecVersions == InitVersions /\ [][NextVersions]_vars

----------------------------------------------------------------------------
(* Properties of the editor handlers, checked under SpecUI *)

IsPrefix(a, b) == Len(a) <= Len(b) /\ SubSeq(b, 1, Len(a)) = a

\* a pending request resumes: its response is applied and it leaves requests
ResponseApplied == Len(requests') < Len(requests)

\* C8: when the response of a generation or keyword-extraction request is
\* applied, the result is merged into the present current at that moment, so
\* every page of the current present is still there with the keywords it had
\* (the response only sets the image or appends the extracted keywords) and
\* the active page index is the current one.
C8_EditsSurviveResponses ==
    [][ResponseApplied =>
          /\ Len(pages') >= Len(pages)
          /\ activePageIndex' = activePageIndex
          /\ \A k \in 1..Len(pages) :
                /\ pages'[k].id = pages[k].id
                /\ IsPrefix(pages[k].keywords, pages'[k].keywords)]_vars

GenerationsInFlight ==
    Cardinality({i \in 1..Len(requests) : requests[i].kind = "generate"})

\* C9: in every variant at most one generation request is in flight at any
\* time.
C9_AtMostOneGeneration == GenerationsInFlight <= 1

busy(s) == s.isLoading

history(s) ==
    IF variant = "single"
    THEN [pages |-> s.pages, activePageIndex |-> s.activePageIndex]
    ELSE s.editor

ErrorShown(s, message) ==
    /\ s.errorMessage = message
    /\ variant = "single" => s.showErrorModal

\* C10: a generateMindMap call (either mode) on a non-master active page with
\* zero keywords shows the validation error, makes no AI call and no blob
\* write, starts no request, leaves the busy flag as it was and leaves the
\* editor history (past, present, future) unchanged.
C10_ValidationHasNoSideEffects ==
    [][(GenerateMindMap /\ MustHaveKeywords(activePage)) =>
          /\ ErrorShown(state', ValidationMessage)
          /\ aiCalls' = aiCalls
          /\ blobWrites' = blobWrites
          /\ requests' = requests
          /\ busy(state') = busy(state)
          /\ history(state') = history(state)
          /\ focusedItems' = focusedItems]_vars

\* generate was invoked on a non-master page without keywords: the validation
\* error is up, nothing is in flight and nothing was called
C10_Witness ==
    /\ HasActivePage
    /\ MustHaveKeywords(activePage)
    /\ ErrorShown(state, ValidationMessage)
    /\ ~busy(state)
    /\ requests = <<>>
    /\ aiCalls = 0
    /\ blobWrites = 0

\* request i resumes for the last time and commits the image reference
ImageCommitted(i, image) ==
    \/ variant # "supabase" /\ ImageReturned(i, image)
    \/ UploadReturnedAt(i) /\ requests[i].image = image

Ids(ps) == {ps[k].id : k \in 1..Len(ps)}

\* the generatedImage of the page with this id
ImageOf(ps, id) == ps[CHOOSE k \in 1..Len(ps) : ps[k].id = id].generatedImage

\* the id of the page that was active when request r was started
Target(r) == r.pages[r.activePageIndex + 1].id

\* C11: a generate attempt that ends without an image (no image part in the
\* answer, an error of the AI call, a failed upload) leaves the document as it
\* was when the outcome arrived: past, present and future, and so every
\* page's generatedImage, are unchanged.
C11_FailureLeavesDocument ==
    [][(GenerateNoImage \/ GenerateFailed) => history(state') = history(state)]_vars

\* an attempt on a page that already had an image has ended with an error,
\* and the image is still there
C11_Witness ==
    /\ HasActivePage
    /\ activePage.generatedImage \in Images
    /\ \/ ErrorShown(state, BackendErrorMessage)
       \/ ErrorShown(state, NoImageMessage)
       \/ ErrorShown(state, EdgeFunctionErrorMessage)
    /\ aiCalls = 2
    /\ requests = <<>>

\* C12: when a generate attempt succeeds, the page that was active (by id)
\* when generate was invoked, if it still exists, gets the new reference as
\* its generatedImage, every other page keeps its generatedImage, and in the
\* history variants a new reference makes past grow by the old present and
\* empties future, whatever the user did while the request was in flight.
C12_ImageGoesToTarget ==
    [][\A i \in 1..Len(requests), image \in Images :
          ImageCommitted(i, image) =>
              LET target == Target(requests[i])
              IN  /\ target \in Ids(pages) =>
                        /\ target \in Ids(pages')
                        /\ ImageOf(pages', target) = image
                  /\ \A id \in Ids(pages) \ {target} :
                        /\ id \in Ids(pages')
                        /\ ImageOf(pages', id) = ImageOf(pages, id)
                  /\ (variant # "single" /\ target \in Ids(pages)
                         /\ ImageOf(pages, target) # image) =>
                        /\ state'.editor.past = Append(state.editor.past, present)
                        /\ state'.editor.future = <<>>]_vars

\* a generate attempt ends in this step
AttemptFinished ==
    \/ GenerateMindMap /\ MustHaveKeywords(activePage)
    \/ GenerateNoImage
    \/ GenerateFailed
    \/ \E i \in 1..Len(requests), image \in Images : ImageCommitted(i, image)

\* C13: when a generate attempt finishes (success, no image, backend error or
\* validation failure) both focus sets are empty.
C13_FocusEmptyAfterAttempt ==
    [][AttemptFinished => focusedItems' = noFocus]_vars

\* the generation request i resumes after an await in this step
Resumed(i) ==
    /\ requests[i].kind = "generate"
    /\ \/ requests' = RemoveRequest(i)
       \/ Len(requests') = Len(requests) /\ requests'[i] # requests[i]

\* C14: the AI backend is called only when an attempt starts, once; a blob is
\* written only when an attempt of the Supabase variant receives an image,
\* once, as it moves from the AI call to the upload; and a resuming attempt
\* changes the history only in the step that commits the image reference,
\* after the upload (Supabase) or the image answer (other variants), and
\* then it is over.
C14_OneCallOneWriteOneCommit ==
    [][/\ aiCalls' # aiCalls =>
            /\ aiCalls' = aiCalls + 1
            /\ requests' = Append(requests, requests'[Len(requests')])
            /\ requests'[Len(requests')].stage = "ai"
       /\ blobWrites' # blobWrites =>
            /\ blobWrites' = blobWrites + 1
            /\ variant = "supabase"
            /\ \E i \in 1..Len(requests) :
                  /\ requests[i].stage = "ai"
                  /\ requests' = [requests EXCEPT ![i].stage = "upload",
                                                  ![i].image = requests'[i].image]
                  /\ requests'[i].image \in Images
       /\ ((\E i \in 1..Len(requests) : Resumed(i))
              /\ history(state') # history(state)) =>
            \E i \in 1..Len(requests), image \in Images :
                /\ ImageCommitted(i, image)
                /\ requests[i].stage = IF variant = "supabase" THEN "upload"
                                       ELSE "ai"
                /\ requests' = RemoveRequest(i)]_vars

\* a Supabase attempt has made its one call and its one upload and has
\* committed the reference
C14_Witness ==
    /\ variant = "supabase"
    /\ aiCalls = 1
    /\ blobWrites = 1
    /\ requests = <<>>
    /\ Len(state.editor.past) = 1
    /\ HasActivePage
    /\ activePage.generatedImage \in Images

\* C15: the base image of every generation request is the canvas rendering if
\* and only if its mode is evolve and the page it was started on had a
\* generated image; otherwise it is the blank white canvas of the default size.
C15_BaseImage ==
    \A i \in 1..Len(requests) :
        requests[i].kind = "generate" =>
            LET r == requests[i]
                evolves == /\ r.mode = "evolve"
                           /\ r.pages[r.activePageIndex + 1].generatedImage # Null
            IN  /\ evolves <=> r.drawingData = CanvasRendering
                /\ ~evolves <=> r.drawingData = BlankCanvas

\* an evolve request in flight from a page that has an image, with the canvas
C15_Witness ==
    /\ Len(requests) >= 1
    /\ requests[1].kind = "generate"
    /\ requests[1].mode = "evolve"
    /\ requests[1].pages[requests[1].activePageIndex + 1].generatedImage \in Images
    /\ requests[1].drawingData = CanvasRendering

\* C16: an answer of the AI model without an image part ends the attempt with
\* the 'model returned no image' message, in every variant.
C16_NoImageIsDistinct ==
    [][GenerateNoImage => ErrorShown(state', NoImageMessage)]_vars

\* every index of the focus selection is an index of the items
InRange(indexes, items) ==
    \A k \in 1..Len(indexes) : indexes[k] \in 0..(Len(items) - 1)

\* C27: the focus sets only hold indices of items of the active page, in
\* every state: after a keyword or an instruction is added or deleted and
\* after the active page is switched or deleted.
C27_FocusIndicesInRange ==
    HasActivePage =>
        /\ InRange(focusedItems.keywords, activePage.keywords)
        /\ InRange(focusedItems.instructions, activePage.instructions)

----------------------------------------------------------------------------
(* Properties of the document handlers, checked under SpecDoc *)

\* a document is open
DocumentOpen == variant = "single" \/ state.appStatus = "editor"

\* C28: while a document is open, exactly one page has the master id and it
\* is the first page.
C28_MasterFirstAndOnly ==
    DocumentOpen =>
        /\ Len(pages) >= 1
        /\ pages[1].id = MasterId
        /\ \A k \in 2..Len(pages) : pages[k].id # MasterId

\* C30: no page's contextPageIds holds the page's own id or the master id.
C30_ContextExcludesSelfAndMaster ==
    \A k \in 1..Len(pages) :
        \A j \in 1..Len(pages[k].contextPageIds) :
            pages[k].contextPageIds[j] \notin {pages[k].id, MasterId}

\* two pages that refer to each other
C30_Witness ==
    /\ variant = "single"
    /\ Len(pages) = 3
    /\ pages[2].contextPageIds = <<pages[3].id>>
    /\ pages[3].contextPageIds = <<pages[2].id>>

----------------------------------------------------------------------------
(* Properties of the autosave, checked under SpecSave and SpecSaveFair *)

\* the record r holds the document d
Holds(r, d) ==
    /\ r # NullProject
    /\ r.pages = d.pages
    /\ r.activePageIndex = d.activePageIndex

\* the stored record of the open project holds the editor's present
InSync == Holds(Stored, present)

\* a persistence call is still to come or to return
SavePending == timers # <<>> \/ saves # <<>>

\* no autosave update was rejected by the database
NoSaveFailed == \A i \in 1..Len(saves) : saves[i].error = Null

\* a project is open in the editor and was edited since it was opened
Edited == state.appStatus = "editor" /\ committedSinceOpen

\* C17: while an edited project stays open and no persistence call fails,
\* whenever the events stop, the stored record ends up equal to present: again
\* and again either the record holds present or a persistence call is pending.
C17_EventuallyPersisted ==
    []NoSaveFailed => []<>(Edited => (InSync \/ SavePending))

\* C18: at most one autosave timer is pending; every change of present in the
\* editor leaves exactly one pending timer, the one started for the new
\* present; and the persistence call of a timer carries the present.
C18_LastWriteWinsDebounce ==
    [][/\ Len(timers') <= 1
       /\ (/\ state.appStatus = "editor"
           /\ state'.appStatus = "editor"
           /\ state'.editor.present # state.editor.present)
          => timers' = <<NewTimer(state')>>
       /\ (AutosaveFires /\ variant = "supabase")
          => Holds(timers[1], present)
       /\ (AutosaveFires /\ variant = "local" /\ localStorage' # localStorage)
          => Holds(StoredAt(state, localStorage', database'), present)]_vars

\* C19: a persistence call is made only while appStatus is 'editor' and after
\* at least one Commit since the project was opened.
C19_NoSaveOutsideEditorOrOnLoad ==
    [][AutosaveFires => (state.appStatus = "editor" /\ committedSinceOpen)]_vars

\* C20: when the user leaves the editor for the dashboard while an autosave
\* timer is pending, the timer stays pending or the record of the project
\* holds the present that was being edited.
C20_ExitKeepsPendingSave ==
    [][(/\ state.appStatus = "editor"
        /\ state'.appStatus = "dashboard"
        /\ timers # <<>>)
       => \/ timers' # <<>>
          \/ Holds(StoredAt(state, localStorage', database'), present)]_vars

\* C21: at most one autosave persistence call is in flight at any time.
C21_AtMostOneSaveInFlight == Len(saves) <= 1

\* the reply of a failed autosave update is handled by the step
FailedSaveReturns ==
    /\ saves # <<>>
    /\ saves[1].error # Null
    /\ saves' = Tail(saves)

----------------------------------------------------------------------------
(* Properties of the prompt composer, checked under SpecPrompt *)

Has(string, part) == \E k \in 1..Len(string) : string[k] = part

\* the position of the first occurrence of the part, 0 when there is none
Position(string, part) ==
    IF Has(string, part)
    THEN CHOOSE k \in 1..Len(string) :
            /\ string[k] = part
            /\ \A j \in 1..(k - 1) : string[j] # part
    ELSE 0

\* the parts that follow the occurrences of the header, in order
Following(string, header) ==
    Appended([k \in 1..Len(string) |->
        IF string[k] = header /\ k < Len(string) THEN <<string[k + 1]>> ELSE <<>>])

Names(ps) == [k \in 1..Len(ps) |-> ps[k].name]

\* the prompts sent, with the page each was composed for
Prompts == {r \in {requests[i] : i \in 1..Len(requests)} : r.kind = "prompt"}
TargetOf(r) == r.pages[r.activePageIndex + 1]

\* C23: a prompt for the master page has one entry for exactly the non-master
\* pages that have a keyword, in document order, and has the evolve clause
\* if and only if the mode is evolve.
C23_MasterPromptEntries ==
    \A r \in Prompts :
        TargetOf(r).id = MasterId =>
            /\ Following(r.prompt, OnPage) =
                  Names(SelectSeq(r.pages,
                        LAMBDA q : q.id # MasterId /\ Len(q.keywords) > 0))
            /\ Has(r.prompt, MasterEvolve) <=> r.mode = "evolve"

\* an evolve prompt for the master page of a document in which one page has
\* keywords and another has none
C23_Witness ==
    \E r \in Prompts :
        /\ TargetOf(r).id = MasterId
        /\ r.mode = "evolve"
        /\ r.pages[2].keywords = <<>>
        /\ r.pages[3].keywords # <<>>
        /\ Following(r.prompt, OnPage) = <<"Plans", "Notes">>

\* C24: a prompt for a non-master page contains every keyword and every
\* instruction of that page, whatever the mode, the focus and the context.
C24_PromptHasAllItems ==
    \A r \in Prompts :
        TargetOf(r).id # MasterId =>
            /\ \A k \in 1..Len(TargetOf(r).keywords) :
                  Has(r.prompt, TargetOf(r).keywords[k])
            /\ \A k \in 1..Len(TargetOf(r).instructions) :
                  Has(r.prompt, TargetOf(r).instructions[k])

\* a prompt for a page with two keywords, an instruction, a focus and context
C24_Witness ==
    \E r \in Prompts :
        /\ TargetOf(r).id # MasterId
        /\ Len(TargetOf(r).keywords) = 2
        /\ Len(TargetOf(r).instructions) = 1
        /\ r.focusedItems.keywords # <<>>
        /\ TargetOf(r).contextPageIds # <<>>

\* the clauses of a prompt for a non-master page, in their order, with the
\* condition under which each is present
ClauseOrder(r, withInstructions) ==
    LET text == r.prompt
        page == TargetOf(r)
        rule == IF r.mode = "evolve" THEN RuleEvolve ELSE RuleStartFresh
        focused == r.focusedItems.keywords # <<>> \/ r.focusedItems.instructions # <<>>
        clauses == <<GoldenRule, rule, CriticalFocus, AdditionalContext,
                     OverallInstructions, AllConcepts>>
        shown == <<TRUE, TRUE, focused, page.contextPageIds # <<>>,
                     withInstructions, TRUE>>
    IN  /\ \A k \in 1..6 : Has(text, clauses[k]) <=> shown[k]
        /\ \A j, k \in 1..6 :
              (j < k /\ shown[j] /\ shown[k])
                  => Position(text, clauses[j]) < Position(text, clauses[k])
        /\ Position(text, GoldenRule) = 1
        /\ r.mode = "rethink" => ~Has(text, RuleEvolve)
        /\ r.mode = "evolve" => ~Has(text, RuleStartFresh)

\* C25 as stated: the instruction summary is in every prompt.
C25_ClauseOrderAlways ==
    \A r \in Prompts : TargetOf(r).id # MasterId => ClauseOrder(r, TRUE)

\* C25: the clauses of a prompt for a non-master page are, in this order, the
\* coverage rule, the mode rule, the focus clause (only with a focus), the
\* context clause (only with context pages), the instruction summary (only
\* when the page has instructions) and the keyword summary; the mode rule is
\* the evolve clause for evolve and the start-fresh clause for rethink.
C25_ClauseOrder ==
    \A r \in Prompts :
        TargetOf(r).id # MasterId =>
            ClauseOrder(r, Truthy(join(TargetOf(r).instructions, ". ")))

\* a rethink prompt with every clause
C25_Witness ==
    \E r \in Prompts :
        /\ TargetOf(r).id # MasterId
        /\ r.mode = "rethink"
        /\ r.focusedItems.keywords # <<>>
        /\ TargetOf(r).contextPageIds # <<>>
        /\ TargetOf(r).instructions # <<>>

\* C26: with context pages, the context clause lists exactly the referenced
\* pages that are still in the document, in the order of contextPageIds.
C26_ContextSkipsDeletedPages ==
    \A r \in Prompts :
        (TargetOf(r).id # MasterId /\ TargetOf(r).contextPageIds # <<>>) =>
            LET ids == TargetOf(r).contextPageIds
                still == SelectSeq(ids, LAMBDA id : \E k \in 1..Len(r.pages) :
                                                      r.pages[k].id = id)
            IN  Following(r.prompt, FromPage) =
                    [k \in 1..Len(still) |->
                        (CHOOSE q \in {r.pages[j] : j \in 1..Len(r.pages)} :
                            q.id = still[k]).name]

\* a prompt whose page refers to a deleted page and to a page of the document
C26_Witness ==
    \E r \in Prompts :
        /\ TargetOf(r).contextPageIds = <<"page-9", "page-2">>
        /\ Following(r.prompt, FromPage) = <<"Plans">>

----------------------------------------------------------------------------
(* Properties of the saved versions, checked under SpecVersions *)

VersionsOf(ps, id) == find(ps, id)[1].versions

\* C31: the versions sequence of a page is append-only: a step leaves the
\* versions of every page that stays in the document as they were, or adds one
\* entry at their end; no entry is removed, replaced or reordered
C31_VersionsAppendOnly ==
    [][\A k \in 1..Len(pages) :
          LET id == pages[k].id
          IN  find(pages', id) # <<>> =>
                \/ VersionsOf(pages', id) = pages[k].versions
                \/ \E image \in Images :
                      VersionsOf(pages', id) = Append(pages[k].versions, image)]_vars

----------------------------------------------------------------------------
(* Properties of the screens and the session, checked under Spec *)

\* C32: a step from the dashboard or the editor to the auth screen leaves the
\* projects list empty, no active project and the editor history at its
\* initial value
C32_LeavingForAuthClears ==
    [][(state.appStatus \in {"dashboard", "editor"} /\ state'.appStatus = "auth")
        => /\ state'.projects = <<>>
           /\ ~HasActiveProject'
           /\ state'.editor = emptyEditor]_vars

StatusEdges ==
    {<<"loading", "auth">>, <<"loading", "dashboard">>, <<"auth", "dashboard">>,
     <<"dashboard", "editor">>, <<"editor", "dashboard">>,
     <<"dashboard", "auth">>, <<"editor", "auth">>}

\* C33: appStatus changes only along the listed edges, and the editor is left
\* for the dashboard only by the exit control of the editor
C33_StatusEdges ==
    [][/\ state'.appStatus # state.appStatus
          => <<state.appStatus, state'.appStatus>> \in StatusEdges
       /\ (state.appStatus = "editor" /\ state'.appStatus = "dashboard")
          => (ExitEditor \/ GoToDashboard)]_vars

\* C38: the editor screen is shown exactly when a project is selected
C38_EditorIffActiveProject ==
    state.appStatus = "editor" <=> HasActiveProject

----------------------------------------------------------------------------
(* Properties of the JSON import, checked under SpecImport *)

\* C34: an import is all-or-nothing: it either resets the history to a
\* complete snapshot (a pages list and an active page index, empty past and
\* future), or reports the error and leaves the history as it was
C34_ImportAllOrNothing ==
    [][ImportJson =>
        \/ /\ state'.editor = state.editor
           /\ state'.errorMessage = ImportErrorMessage
        \/ /\ DOMAIN state'.editor.present = {"pages", "activePageIndex"}
           /\ state'.editor.past = <<>>
           /\ state'.editor.future = <<>>]_vars

----------------------------------------------------------------------------
(* Termination of a generation, checked under SpecGenerate *)

\* C35: whenever the busy flag of a generation is raised it is lowered again,
\* whether the attempt ends with an image, without one or with an error
C35_LoadingEnds == state.isLoading ~> ~state.isLoading

\* an attempt has failed, nothing is pending and the editor is not busy
C35_Witness ==
    /\ aiCalls > 0
    /\ requests = <<>>
    /\ state.errorMessage = BackendErrorMessage
    /\ ~state.isLoading

----------------------------------------------------------------------------
(* The import and the autosave, checked under SpecSave *)

\* C36: a successful import triggers the autosave: after the step of the
\* import a timer that will persist the imported document is pending
C36_ImportSchedulesSave ==
    [][ImportFile =>
        \E k \in 1..Len(timers') : timers'[k] = NewTimer(state')]_vars

\* the stored records of the projects
Rows == IF variant = "local" THEN localStorage.projects ELSE database

\* C37: persistence never crosses projects: a step that changes the stored
\* record of a project is taken while that project is open in the editor, and
\* the document it writes was edited since that project was opened
C37_NoCrossProjectWrite ==
    [][\A k \in 1..Len(Rows) :
          Rows'[k] # Rows[k] =>
             /\ state.appStatus = "editor"
             /\ OpenProject(state).id = Rows[k].id
             /\ committedSinceOpen]_vars

----------------------------------------------------------------------------
(* The active page, checked under SpecDoc *)

\* C39: while a document is open the active page index is at least 0 and
\* less than the number of pages
C39_ActivePageIndexInRange ==
    DocumentOpen => activePageIndex \in 0..(Len(pages) - 1)

----------------------------------------------------------------------------
(* The prompt and the base image, checked under SpecPrompt *)

\* C40: a prompt holds an evolve clause (of the master page or of a regular
\* page) only if the base image sent with it is the existing drawing of the
\* page; a blank canvas never comes with an evolve clause
C40_EvolveOnlyWithDrawing ==
    \A r \in Prompts :
        (Has(r.prompt, MasterEvolve) \/ Has(r.prompt, RuleEvolve))
            => r.drawingData = CanvasRendering

====
